---- MODULE Spec2Model ----
(***************************************************************************)
(* Model of the two swimming-advice scripts of rws_data_ingester:          *)
(*   src/src/rijnhaven_swimming_advice.py  (script = "rijnhaven")          *)
(*   src/src/rotterdam_swimming_advice.py  (script = "rotterdam")          *)
(* One run of main(): gather the HTTP GETs, build the prompt, call the     *)
(* LLM, write index.html; every exception ends in main's except clause.    *)
(*                                                                         *)
(* Python values are tagged records: [kind |-> "dict", d |-> <record>],    *)
(* [kind |-> "str", s |-> ...], [kind |-> "list"], [kind |-> "None"].      *)
(* A dict is a TLA+ record holding exactly the keys that are present.      *)
(* Numbers read from JSON are kept as the text str() gives them.           *)
(***************************************************************************)
EXTENDS Naturals, Sequences, FiniteSets, TLC

VARIABLES
    script,                 \* which of the two scripts runs
    pc,                     \* main()'s position
    req,                    \* per URL: "idle", "inflight", "ok", "error", "cancelled"
    result,                 \* per URL: what its coroutine returned or raised
    completed,              \* URLs in the order their coroutines finished
    reqCount,               \* per URL: how many GETs were sent
    water_data,             \* main's local
    water_messages,         \* main's local
    zwemwater_safety_data,  \* main's local (rotterdam)
    prompt,                 \* main's local
    report,                 \* main's local
    response,               \* get_llm_response's local: the completion received
    llmCalls,               \* chat.completions.create calls
    exportInvoked,          \* export_to_html was entered
    writes,                 \* Path.write_text calls
    file,                   \* index.html on disk
    file0,                  \* index.html before the run
    log,                    \* the logging output
    faults,                 \* which kinds of failure have happened in the run
    steps                   \* the pipeline steps main has finished, in order

vars == <<script, pc, req, result, completed, reqCount, water_data, water_messages,
          zwemwater_safety_data, prompt, report, response, llmCalls, exportInvoked,
          writes, file, file0, log, faults, steps>>

-----------------------------------------------------------------------------
(* Bounds of the enumerated inputs *)

MaxRelated == 2     \* entries of water_data["related"]
MaxMessages == 2    \* entries of water_messages["messages"]
MaxLen == 2         \* characters of a text the LLM returns
MaxChoices == 2     \* choices of a completion

-----------------------------------------------------------------------------
(* Sequences *)

Range(s) == {s[i] : i \in 1..Len(s)}

SeqsUpTo(S, n) == UNION {[1..k -> S] : k \in 0..n}

IsPrefix(s, t) == Len(s) <= Len(t) /\ SubSeq(t, 1, Len(s)) = s

\* s occurs in t as a contiguous run
Contains(t, s) == \E i \in 0..(Len(t) - Len(s)) : SubSeq(t, i + 1, i + Len(s)) = s

-----------------------------------------------------------------------------
(* Python values *)

PyNone == [kind |-> "None"]
PyStr(s) == [kind |-> "str", s |-> s]
PyDict(d) == [kind |-> "dict", d |-> d]
PyList == [kind |-> "list"]
Unset == [kind |-> "unset"]

EmptyDict == [k \in {} |-> 0]

Has(d, k) == k \in DOMAIN d

\* dict.get(k, default)
Get(d, k, default) == IF Has(d, k) THEN d[k] ELSE default

\* what a function call gives: a value or an exception
Returned(v) == [exc |-> "none", value |-> v]
Raised(e) == [exc |-> e]

-----------------------------------------------------------------------------
(* Program constants *)

WATER_DATA_URL == "WATER_DATA_URL"
WATER_MESSAGES_URL == "WATER_MESSAGES_URL"
ZWEMWATER_IDS == <<"22003", "23762", "22005", "22001">>

RwsGroup == <<WATER_DATA_URL, WATER_MESSAGES_URL>>
ZwemGroup == ZWEMWATER_IDS
Urls == Range(RwsGroup) \cup Range(ZwemGroup)

Scripts == {"rijnhaven", "rotterdam"}

-----------------------------------------------------------------------------
(* HTTP: what the network gives for one GET, and the two fetch coroutines *)

\* response.json() succeeds with `value`
JsonBody(v) == [isJson |-> TRUE, value |-> v]
\* response.json() raises json.JSONDecodeError; response.text is `doc`
TextBody(doc) == [isJson |-> FALSE, text |-> doc]

\* client.get returned a response
Response(status, body) == [net |-> "ok", status |-> status, body |-> body]
\* client.get raised (connection error, or the 10 s timeout)
TransportError == [net |-> "timeout"]

\* response.raise_for_status() raises
raise_for_status_raises(resp) == resp.status \notin 200..299

\* a faulty variant: the status is never looked at
raise_for_status_never(resp) == FALSE

raise_for_status(resp) == raise_for_status_raises(resp)

get_json(resp) ==
    IF resp.net # "ok" THEN Raised("TimeoutException")
    ELSE IF raise_for_status(resp) THEN Raised("HTTPStatusError")
    ELSE IF ~resp.body.isJson THEN Raised("JSONDecodeError")
    ELSE Returned(resp.body.value)

call_endpoint_and_get_content(resp) ==
    IF resp.net # "ok" THEN Raised("TimeoutException")
    ELSE IF raise_for_status(resp) THEN Raised("HTTPStatusError")
    ELSE IF ~resp.body.isJson THEN Returned(PyStr(resp.body.text))
    ELSE Returned(resp.body.value)

\* the coroutine each script passes to asyncio.gather
FetchCoroutine(s, resp) ==
    IF s = "rijnhaven" THEN get_json(resp) ELSE call_endpoint_and_get_content(resp)

-----------------------------------------------------------------------------
(* create_prompt *)

Windsnelheid == "Windsnelheid"
Watertemperatuur == "Watertemperatuur"

\* `word in label`: a label is the sequence of its words
InLabel(word, label) == word \in Range(label)

\* next((r for r in related if word in r["label"]), {})        (rijnhaven)
\* next((item for item in related if word in item.get("label", "")), {})  (rotterdam)
RECURSIVE NextMatchFirst(_, _, _)
NextMatchFirst(related, word, strict) ==
    IF related = <<>> THEN Returned(EmptyDict)
    ELSE LET r == Head(related) IN
         IF strict /\ ~Has(r, "label") THEN Raised("KeyError")
         ELSE IF InLabel(word, Get(r, "label", <<>>)) THEN Returned(r)
         ELSE NextMatchFirst(Tail(related), word, strict)

\* a faulty variant: the last matching entry instead of the first
RECURSIVE NextMatchLast(_, _, _)
NextMatchLast(related, word, strict) ==
    IF related = <<>> THEN Returned(EmptyDict)
    ELSE LET r == related[Len(related)] IN
         IF strict /\ ~Has(r, "label") THEN Raised("KeyError")
         ELSE IF InLabel(word, Get(r, "label", <<>>)) THEN Returned(r)
         ELSE NextMatchLast(SubSeq(related, 1, Len(related) - 1), word, strict)

next_match(related, word, strict) == NextMatchFirst(related, word, strict)

\* f"- {msg['title']}: {msg['bannerText']}"
MessageLine(msg) == "- " \o msg.title \o ": " \o msg.bannerText

\* [f"- {msg['title']}: {msg['bannerText']}" for msg in msgs]
message_lines(msgs) ==
    IF \E i \in 1..Len(msgs) : ~Has(msgs[i], "title") \/ ~Has(msgs[i], "bannerText")
    THEN Raised("KeyError")
    ELSE Returned([i \in 1..Len(msgs) |-> MessageLine(msgs[i])])

\* The prompt is its template with the values put into its slots; `messages` is
\* the "\n"-joined block, kept as the sequence of its lines.
create_prompt_rijnhaven(wd, wm) ==
    IF wd.kind # "dict" THEN Raised("TypeError")
    ELSE IF ~Has(wd.d, "latest") \/ ~Has(wd.d.latest, "data") THEN Raised("KeyError")
    ELSE IF ~Has(wd.d, "related") THEN Raised("KeyError")
    ELSE LET wind == next_match(wd.d.related, Windsnelheid, TRUE)
             temp == next_match(wd.d.related, Watertemperatuur, TRUE)
         IN
         IF wind.exc # "none" THEN wind
         ELSE IF temp.exc # "none" THEN temp
         ELSE IF wm.kind # "dict" THEN Raised("TypeError")
         ELSE IF ~Has(wm.d, "messages") THEN Raised("KeyError")
         ELSE LET lines == message_lines(wm.d.messages) IN
              IF lines.exc # "none" THEN lines
              ELSE Returned([template |-> "rijnhaven",
                             temp |-> Get(temp.value, "data", "None"),
                             level |-> wd.d.latest.data,
                             wind |-> Get(wind.value, "data", "None"),
                             messages |-> lines.value])

create_prompt_rotterdam(wd, wm, zw) ==
    IF wd.kind # "dict" THEN Raised("AttributeError")
    ELSE LET level == Get(Get(wd.d, "latest", EmptyDict), "data", "N/A")
             wind == next_match(Get(wd.d, "related", <<>>), Windsnelheid, FALSE)
             temp == next_match(Get(wd.d, "related", <<>>), Watertemperatuur, FALSE)
         IN
         IF wm.kind # "dict" THEN Raised("AttributeError")
         ELSE LET lines == message_lines(Get(wm.d, "messages", <<>>)) IN
              IF lines.exc # "none" THEN lines
              ELSE Returned([template |-> "rotterdam",
                             temp |-> Get(temp.value, "data", "N/A"),
                             level |-> level,
                             wind |-> Get(wind.value, "data", "N/A"),
                             messages |-> IF lines.value # <<>> THEN lines.value
                                          ELSE <<"- No official messages">>,
                             zwemwater |-> zw])

create_prompt(s, wd, wm, zw) ==
    IF s = "rijnhaven" THEN create_prompt_rijnhaven(wd, wm)
    ELSE create_prompt_rotterdam(wd, wm, zw)

-----------------------------------------------------------------------------
(* parse_zwemwater_html_to_dict and the zwemwater records *)

\* A fetched page is a document: what BeautifulSoup finds in it (h2, the
\* ul.spot-info li items, p, the feature buttons, h4), and whether BeautifulSoup
\* takes it at all. An li item is [span |-> <<key>> or <<>>, words |-> <<...>>];
\* the key stands for the span's text without its colon.
Doc(raw, parses, h2, li, p, features, h4) ==
    [raw |-> raw, parses |-> parses, h2 |-> h2, li |-> li, p |-> p,
     features |-> features, h4 |-> h4]

\* li.get_text().replace(label.get_text(), "").strip(": ")
LiText(item) == SelectSeq(item.words, LAMBDA w : w # item.span[1])

\* general_info[key] = text, a later item replacing an earlier one of the same key
RECURSIVE GeneralInfo(_)
GeneralInfo(lis) ==
    IF lis = <<>> THEN EmptyDict
    ELSE LET item == lis[Len(lis)]
             rest == GeneralInfo(SubSeq(lis, 1, Len(lis) - 1))
         IN IF item.span # <<>> THEN (item.span[1] :> LiText(item)) @@ rest ELSE rest

\* BeautifulSoup(html_content, "lxml") raises: the content is no text (the body
\* was JSON), or the parser rejects it
SoupRaises(html_content) == html_content.kind # "str" \/ ~html_content.s.parses

\* the body of the try block
ParsedRecord(doc) ==
    [place |-> IF doc.h2 # <<>> THEN doc.h2[1] ELSE "Unknown",
     general_info |-> GeneralInfo(doc.li),
     description |-> doc.p,
     facilities |-> doc.features,
     chart_titles |-> doc.h4]

ErrorRecord(html_content) == [error |-> "str(exc)", raw |-> html_content]

parse_zwemwater_catching(html_content) ==
    IF SoupRaises(html_content) THEN Returned(ErrorRecord(html_content))
    ELSE Returned(ParsedRecord(html_content.s))

\* a faulty variant: no try/except around the parsing
parse_zwemwater_raising(html_content) ==
    IF SoupRaises(html_content) THEN Raised("ParserError")
    ELSE Returned(ParsedRecord(html_content.s))

parse_zwemwater_html_to_dict(html_content) == parse_zwemwater_catching(html_content)

\* the loop of get_zwemwater_safety_data over the gathered list
safety_messages(safety_data_list) ==
    LET parsed == [i \in 1..Len(safety_data_list) |->
                       parse_zwemwater_html_to_dict(safety_data_list[i])]
    IN IF \E i \in 1..Len(parsed) : parsed[i].exc # "none"
       THEN Raised("ParserError")
       ELSE Returned([safetyMessages |-> [i \in 1..Len(parsed) |-> parsed[i].value]])

-----------------------------------------------------------------------------
(* get_llm_response *)

\* a completion is the sequence of the contents of its choices; a content is a
\* text (a sequence of characters) or None

\* response.choices[0].message.content
first_choice_content(completion) ==
    IF completion = <<>> THEN Raised("IndexError") ELSE Returned(completion[1])

-----------------------------------------------------------------------------
(* export_to_html *)

NL == "\n"
BR == "<br>"
\* a lone surrogate, which json.loads gives for "\ud83c" and UTF-8 cannot encode
SUR == "\\ud83c"
SP == " "
Now == "%Y-%m-%d %H:%M"

\* report.replace("\n", "<br>")
ReplaceNewlines(text) == [i \in 1..Len(text) |-> IF text[i] = NL THEN BR ELSE text[i]]

\* a faulty variant: the report is put into the page as it is
ReplaceNothing(text) == text

replace(text) == ReplaceNewlines(text)

Whitespace == {NL, SP}

\* str.strip()
RECURSIVE LStrip(_)
LStrip(s) == IF s # <<>> /\ Head(s) \in Whitespace THEN LStrip(Tail(s)) ELSE s
RECURSIVE RStrip(_)
RStrip(s) ==
    IF s # <<>> /\ s[Len(s)] \in Whitespace THEN RStrip(SubSeq(s, 1, Len(s) - 1)) ELSE s
Strip(s) == RStrip(LStrip(s))

\* the fixed template around the report: up to "<div>", and from "</div>" on
RijnhavenHead == <<NL, SP, "<!DOCTYPE html>..<h1>Rijnhaven Swimming Advice</h1>", NL, SP, "<div>">>
RijnhavenTail == <<"</div>", NL, SP, "<div class=contribute-notice>..Last updated: ", Now,
                   "</div>..</html>", NL, SP>>
RotterdamHead == <<"<!DOCTYPE html>", NL, "..<h1>Rotterdam Swimming Advice</h1>", NL, SP, "<div>">>
RotterdamTail == <<"</div>", NL, "<div class=contribution>..Last updated: ", Now,
                   "</div>", NL, "..</html>">>

\* html_content as handed to write_text
html_content(s, text) ==
    IF s = "rijnhaven" THEN Strip(RijnhavenHead \o replace(text) \o RijnhavenTail)
    ELSE RotterdamHead \o replace(text) \o RotterdamTail

\* index.html
NoFile == [exists |-> FALSE, content |-> <<>>]
FileWith(content) == [exists |-> TRUE, content |-> content]

Encodable(content) == SUR \notin Range(content)

\* Path(file_path).write_text(content, encoding="utf-8") under the disk outcome io:
\* open("w") may fail and leaves the file alone; once open, the file is truncated,
\* the encoding of the whole text comes before any byte is written, and the write
\* itself may fail after n of the pieces are on disk
write_text(old, content, io, n) ==
    IF io = "open_error" THEN [file |-> old, exc |-> "OSError"]
    ELSE IF ~Encodable(content) THEN [file |-> FileWith(<<>>), exc |-> "UnicodeEncodeError"]
    ELSE IF io = "write_error" THEN [file |-> FileWith(SubSeq(content, 1, n)), exc |-> "OSError"]
    ELSE [file |-> FileWith(content), exc |-> "none"]

\* what the disk may do to a write of len pieces
DiskCases(len) ==
    {[io |-> "ok", n |-> 0], [io |-> "open_error", n |-> 0]}
        \cup {[io |-> "write_error", n |-> k] : k \in 0..(len - 1)}

\* export_to_html(report): the file afterwards and the exception, if any
export_to_html(s, old, rep, io, n) ==
    IF rep.kind # "str" THEN [file |-> old, exc |-> "AttributeError", wrote |-> FALSE]
    ELSE write_text(old, html_content(s, rep.s), io, n) @@ [wrote |-> TRUE]

-----------------------------------------------------------------------------
(* The inputs of a run: what the servers, the LLM and the disk may give *)

SpotDoc ==
    Doc("spot page", TRUE, <<"Zevenhuizerplas">>,
        <<[span |-> <<"Adres">>, words |-> <<"Adres", "Strandweg 1">>],
          [span |-> <<>>, words |-> <<"Vrij toegankelijk">>]>>,
        <<"Goede waterkwaliteit">>, <<"Toilet">>, <<"Blauwalg">>)
BrokenDoc == Doc("broken page", FALSE, <<>>, <<>>, <<>>, <<>>, <<>>)
ErrorPage == Doc("error page", TRUE, <<>>, <<>>, <<"Service unavailable">>, <<>>, <<>>)

FullWater ==
    [latest |-> [data |-> "12"],
     related |-> <<[label |-> <<Windsnelheid, "Geulhaven">>, data |-> "4"],
                   [label |-> <<Watertemperatuur>>, data |-> "18"]>>]
NoLatestWater == [related |-> <<>>]
ErrorJson == [error |-> "unavailable"]

TwoMessages ==
    [messages |-> <<[title |-> "t1", bannerText |-> "b1"],
                    [title |-> "t2", bannerText |-> "b2"]>>]
BadMessage == [messages |-> <<[title |-> "t1"]>>]

\* what the network may give for a GET of url
Responses(url) ==
    IF url = WATER_DATA_URL
    THEN {Response(200, JsonBody(PyDict(FullWater))),
          Response(200, JsonBody(PyDict(NoLatestWater))),
          Response(200, TextBody(ErrorPage)),
          Response(503, JsonBody(PyDict(ErrorJson))),
          TransportError}
    ELSE IF url = WATER_MESSAGES_URL
    THEN {Response(200, JsonBody(PyDict(TwoMessages))),
          Response(200, JsonBody(PyDict(EmptyDict))),
          Response(200, JsonBody(PyDict(BadMessage))),
          Response(503, JsonBody(PyDict(ErrorJson)))}
    ELSE {Response(200, TextBody(SpotDoc)),
          Response(200, TextBody(BrokenDoc)),
          Response(503, TextBody(ErrorPage))}

\* create_prompt's inputs, enumerated up to the bounds
RelatedEntries ==
    {[data |-> "7"],
     [label |-> <<Windsnelheid>>],
     [label |-> <<Windsnelheid>>, data |-> "4"],
     [label |-> <<Windsnelheid, "Geulhaven">>, data |-> "9"],
     [label |-> <<Watertemperatuur>>, data |-> "18"],
     [label |-> <<"Waterhoogte">>, data |-> "3"]}

WaterDicts ==
    LET latests == {EmptyDict, [latest |-> EmptyDict], [latest |-> [data |-> "12"]]}
        relateds == {EmptyDict} \cup
                    {[related |-> r] : r \in SeqsUpTo(RelatedEntries, MaxRelated)}
    IN {l @@ r : l \in latests, r \in relateds}

Messages ==
    {[title |-> "t1", bannerText |-> "b1"], [title |-> "t2", bannerText |-> "b2"],
     [title |-> "t1"], [bannerText |-> "b2"]}

MessageDicts == {EmptyDict} \cup {[messages |-> m] : m \in SeqsUpTo(Messages, MaxMessages)}

\* the values main can hold in water_data / water_messages after the RWS gather:
\* any JSON value in both scripts, and the response text in rotterdam
WaterValues(s) ==
    {PyDict(d) : d \in WaterDicts} \cup {PyList}
        \cup (IF s = "rotterdam" THEN {PyStr(ErrorPage)} ELSE {})
MessageValues(s) ==
    {PyDict(d) : d \in MessageDicts} \cup {PyList}
        \cup (IF s = "rotterdam" THEN {PyStr(ErrorPage)} ELSE {})

\* the LLM's answers
Chars == {"a", NL, SUR}
Texts == SeqsUpTo(Chars, MaxLen)
Contents == {PyStr(t) : t \in Texts} \cup {PyNone}
OtherChoice == PyStr(<<"b">>)
Completions ==
    {<<>>} \cup {<<c>> \o [i \in 1..k |-> OtherChoice] :
                    c \in Contents, k \in 0..(MaxChoices - 1)}

OldFile == FileWith(<<"<previous report>">>)

-----------------------------------------------------------------------------
(* asyncio.gather and logging *)

Pending == [exc |-> "pending", value |-> Unset]

Info(m) == [level |-> "INFO", msg |-> m, exc |-> "none"]
Error(e) == [level |-> "ERROR", msg |-> "Something went wrong", exc |-> e]

\* every awaitable of the group has returned
GatherAll(group) == \A u \in Range(group) : req[u] = "ok"

\* a faulty variant: the join returns as soon as one awaitable has returned
GatherAny(group) == \E u \in Range(group) : req[u] = "ok"

GatherDone(group) == GatherAll(group)

\* an awaitable of the group has raised: gather raises at once, the others run on
GatherRaises(group) == \E u \in Range(group) : req[u] = "error"

\* the exception gather raises: that of the awaitable that failed first
FirstRaised(group) ==
    LET bad == {i \in 1..Len(completed) :
                    completed[i] \in Range(group) /\ req[completed[i]] = "error"}
        first == CHOOSE i \in bad : \A j \in bad : i <= j
    IN result[completed[first]].exc

\* the list gather returns: the results in the order of the awaitables
GatherInOrder(group) == [i \in 1..Len(group) |-> result[group[i]].value]

\* a faulty variant: the results in the order the awaitables finished
GatherAsCompleted(group) ==
    LET done == SelectSeq(completed, LAMBDA u : u \in Range(group))
    IN [i \in 1..Len(group) |-> IF i <= Len(done) THEN result[done[i]].value ELSE Unset]

gather(group) == GatherInOrder(group)

\* where main is after the except clause has logged
AfterFailureDone == "done"

\* a faulty variant: the run is started again after a failure
AfterFailureRetry == "start"

AfterFailure == AfterFailureDone

\* main after fetch_rws_data / fetch_data has returned
AfterRwsSequential(s) == IF s = "rotterdam" THEN "zwem_start" ELSE "create_prompt"

AfterRws(s) == AfterRwsSequential(s)

\* the awaitables of the first gather
FirstGroupRws(s) == RwsGroup

\* a faulty variant: rotterdam gathers the zwemwater pages together with the RWS requests
FirstGroupAll(s) == IF s = "rotterdam" THEN RwsGroup \o ZwemGroup ELSE RwsGroup

FirstGroup(s) == FirstGroupRws(s)

\* except Exception as e: logging.error(...); main returns and asyncio.run
\* cancels the tasks still running
Except(e) ==
    /\ log' = Append(log, Error(e))
    /\ pc' = AfterFailure
    /\ req' = [u \in Urls |-> IF req[u] = "inflight" THEN "cancelled" ELSE req[u]]

StartRequests(group) ==
    /\ req' = [u \in Urls |-> IF u \in Range(group) THEN "inflight" ELSE req[u]]
    /\ reqCount' = [u \in Urls |-> IF u \in Range(group) THEN reqCount[u] + 1
                                   ELSE reqCount[u]]

-----------------------------------------------------------------------------
(* The run *)

Init ==
    /\ script \in Scripts
    /\ pc = "start"
    /\ req = [u \in Urls |-> "idle"]
    /\ result = [u \in Urls |-> Pending]
    /\ completed = <<>>
    /\ reqCount = [u \in Urls |-> 0]
    /\ water_data = Unset
    /\ water_messages = Unset
    /\ zwemwater_safety_data = Unset
    /\ prompt = Unset
    /\ report = Unset
    /\ response = <<>>
    /\ llmCalls = 0
    /\ exportInvoked = FALSE
    /\ writes = 0
    /\ file0 \in {NoFile, OldFile}
    /\ file = file0
    /\ log = <<>>
    /\ faults = {}
    /\ steps = <<>>

\* fetch_data / fetch_rws_data up to the await of gather
FetchStart ==
    /\ pc = "start"
    /\ pc' = "rws_gather"
    /\ log' = Append(log, Info("Fetching water and safety data..."))
    /\ StartRequests(FirstGroup(script))
    /\ UNCHANGED <<response, script, result, completed, water_data, water_messages,
                   zwemwater_safety_data, prompt, report, llmCalls, exportInvoked,
                   writes, file, file0, faults, steps>>

\* one GET ends and its coroutine returns or raises
RequestCompletes(u) ==
    /\ req[u] = "inflight"
    /\ \E resp \in Responses(u) :
         LET r == FetchCoroutine(script, resp)
             failed == resp.net # "ok" \/ resp.status \notin 200..299
         IN /\ result' = [result EXCEPT ![u] = r @@ [value |-> Unset]]
            /\ req' = [req EXCEPT ![u] = IF r.exc = "none" THEN "ok" ELSE "error"]
            /\ faults' = faults
                 \cup (IF failed THEN {"fetch"} ELSE {})
                 \cup (IF ~failed /\ u \in Range(RwsGroup) /\ ~resp.body.isJson
                       THEN {"rws_json"} ELSE {})
    /\ completed' = Append(completed, u)
    /\ UNCHANGED <<response, script, pc, reqCount, water_data, water_messages,
                   zwemwater_safety_data, prompt, report, llmCalls, exportInvoked,
                   writes, file, file0, log, steps>>

\* water_data, water_messages = await asyncio.gather(...)
RwsJoin ==
    /\ pc = "rws_gather"
    /\ ~GatherRaises(RwsGroup)
    /\ GatherDone(RwsGroup)
    /\ water_data' = gather(RwsGroup)[1]
    /\ water_messages' = gather(RwsGroup)[2]
    /\ pc' = AfterRws(script)
    /\ steps' = Append(steps, "fetch")
    /\ UNCHANGED <<response, script, req, result, completed, reqCount, zwemwater_safety_data,
                   prompt, report, llmCalls, exportInvoked, writes, file, file0, log,
                   faults>>

\* a gather raises into main's except clause
GatherFails ==
    /\ pc \in {"rws_gather", "zwem_gather"}
    /\ LET group == IF pc = "rws_gather" THEN RwsGroup ELSE ZwemGroup IN
         /\ GatherRaises(group)
         /\ Except(FirstRaised(group))
    /\ UNCHANGED <<response, script, result, completed, reqCount, water_data, water_messages,
                   zwemwater_safety_data, prompt, report, llmCalls, exportInvoked,
                   writes, file, file0, faults, steps>>

\* get_zwemwater_safety_data up to the await of gather
ZwemStart ==
    /\ pc = "zwem_start"
    /\ pc' = "zwem_gather"
    /\ log' = Append(log, Info("Fetching additional safety data..."))
    /\ StartRequests(ZwemGroup)
    /\ UNCHANGED <<response, script, result, completed, water_data, water_messages,
                   zwemwater_safety_data, prompt, report, llmCalls, exportInvoked,
                   writes, file, file0, faults, steps>>

\* safety_data_list = await asyncio.gather(...), and the parsing loop
ZwemJoin ==
    /\ pc = "zwem_gather"
    /\ ~GatherRaises(ZwemGroup)
    /\ GatherDone(ZwemGroup)
    /\ LET list == gather(ZwemGroup)
           r == safety_messages(list)
       IN /\ faults' = faults \cup
                 (IF \E i \in 1..Len(list) : SoupRaises(list[i])
                  THEN {"html_parse"} ELSE {})
          /\ IF r.exc = "none"
             THEN /\ zwemwater_safety_data' = r.value
                  /\ pc' = "create_prompt"
                  /\ steps' = Append(steps, "zwem")
                  /\ UNCHANGED <<req, log>>
             ELSE /\ Except(r.exc)
                  /\ UNCHANGED <<zwemwater_safety_data, steps>>
    /\ UNCHANGED <<response, script, result, completed, reqCount, water_data, water_messages,
                   prompt, report, llmCalls, exportInvoked, writes, file, file0>>

\* prompt = create_prompt(...)
CreatePrompt ==
    /\ pc = "create_prompt"
    /\ LET r == create_prompt(script, water_data, water_messages, zwemwater_safety_data)
       IN IF r.exc = "none"
          THEN /\ prompt' = r.value
               /\ pc' = "llm"
               /\ steps' = Append(steps, "prompt")
               /\ UNCHANGED <<req, log, faults>>
          ELSE /\ Except(r.exc)
               /\ faults' = faults \cup {"create_prompt"}
               /\ UNCHANGED <<prompt, steps>>
    /\ completed' = <<>>    \* the gathers are over: their bookkeeping is dropped
    /\ UNCHANGED <<response, script, result, reqCount, water_data, water_messages,
                   zwemwater_safety_data, report, llmCalls, exportInvoked, writes,
                   file, file0>>

\* get_llm_response up to the call of the completion endpoint
LLMCall ==
    /\ pc = "llm"
    /\ pc' = "llm_wait"
    /\ log' = Append(log, Info("Sending prompt to LLM..."))
    /\ llmCalls' = llmCalls + 1
    /\ steps' = Append(steps, "llm_call")
    /\ UNCHANGED <<response, script, req, result, completed, reqCount, water_data,
                   water_messages, zwemwater_safety_data, prompt, report,
                   exportInvoked, writes, file, file0, faults>>

\* the endpoint answers; return response.choices[0].message.content
LLMReturns ==
    /\ pc = "llm_wait"
    /\ \E completion \in Completions :
         LET r == first_choice_content(completion) IN
         /\ response' = completion
         /\ IF r.exc = "none"
            THEN /\ report' = r.value
                 /\ pc' = "export"
                 /\ steps' = Append(steps, "llm")
                 /\ UNCHANGED <<req, log, faults>>
            ELSE /\ Except(r.exc)
                 /\ faults' = faults \cup {"llm"}
                 /\ UNCHANGED <<report, steps>>
    /\ UNCHANGED <<script, result, completed, reqCount, water_data, water_messages,
                   zwemwater_safety_data, prompt, llmCalls, exportInvoked, writes,
                   file, file0>>

\* chat.completions.create raises
LLMRaises ==
    /\ pc = "llm_wait"
    /\ Except("APIError")
    /\ faults' = faults \cup {"llm"}
    /\ UNCHANGED <<response, script, result, completed, reqCount, water_data, water_messages,
                   zwemwater_safety_data, prompt, report, llmCalls, exportInvoked,
                   writes, file, file0, steps>>

\* export_to_html(report)
Export ==
    /\ pc = "export"
    /\ exportInvoked' = TRUE
    /\ \E disk \in DiskCases(Len(html_content(script, Get(report, "s", <<>>)))) :
         LET r == export_to_html(script, file, report, disk.io, disk.n) IN
         /\ file' = r.file
         /\ writes' = IF r.wrote THEN writes + 1 ELSE writes
         /\ IF r.exc = "none"
            THEN /\ log' = Append(log, Info("HTML report saved to: index.html"))
                 /\ pc' = "done"
                 /\ steps' = Append(steps, "write")
                 /\ UNCHANGED <<req, faults>>
            ELSE /\ Except(r.exc)
                 /\ faults' = faults \cup {"export"}
                 /\ UNCHANGED steps
    /\ UNCHANGED <<response, script, result, completed, reqCount, water_data,
                   water_messages, zwemwater_safety_data, prompt, report, llmCalls,
                   file0>>

Next ==
    \/ FetchStart
    \/ \E u \in Urls : RequestCompletes(u)
    \/ RwsJoin
    \/ GatherFails
    \/ ZwemStart
    \/ ZwemJoin
    \/ CreatePrompt
    \/ LLMCall
    \/ LLMReturns
    \/ LLMRaises
    \/ Export

Spec == Init /\ [][Next]_vars

-----------------------------------------------------------------------------
(* create_prompt on every input up to the bounds: main just before the call *)

ScriptUrls(s) == Range(RwsGroup) \cup (IF s = "rotterdam" THEN Range(ZwemGroup) ELSE {})

InitPrompt ==
    /\ script \in Scripts
    /\ pc = "create_prompt"
    /\ water_data \in WaterValues(script)
    /\ water_messages \in MessageValues(script)
    /\ zwemwater_safety_data =
           IF script = "rotterdam"
           THEN [safetyMessages |-> [i \in 1..Len(ZwemGroup) |-> ParsedRecord(SpotDoc)]]
           ELSE Unset
    /\ req = [u \in Urls |-> IF u \in ScriptUrls(script) THEN "ok" ELSE "idle"]
    /\ result = [u \in Urls |->
                   IF u = WATER_DATA_URL THEN Returned(water_data)
                   ELSE IF u = WATER_MESSAGES_URL THEN Returned(water_messages)
                   ELSE IF script = "rotterdam" THEN Returned(PyStr(SpotDoc))
                   ELSE Pending]
    /\ completed = IF script = "rotterdam" THEN RwsGroup \o ZwemGroup ELSE RwsGroup
    /\ reqCount = [u \in Urls |-> IF u \in ScriptUrls(script) THEN 1 ELSE 0]
    /\ prompt = Unset
    /\ report = Unset
    /\ response = <<>>
    /\ llmCalls = 0
    /\ exportInvoked = FALSE
    /\ writes = 0
    /\ file0 \in {NoFile, OldFile}
    /\ file = file0
    /\ log = IF script = "rotterdam"
             THEN <<Info("Fetching water and safety data..."),
                    Info("Fetching additional safety data...")>>
             ELSE <<Info("Fetching water and safety data...")>>
    /\ faults = IF water_data.kind = "str" \/ water_messages.kind = "str"
                THEN {"rws_json"} ELSE {}
    /\ steps = IF script = "rotterdam" THEN <<"fetch", "zwem">> ELSE <<"fetch">>

NextPrompt == CreatePrompt

SpecPrompt == InitPrompt /\ [][NextPrompt]_vars

-----------------------------------------------------------------------------
(* The claims *)

ErrorLogged == \E i \in 1..Len(log) : log[i].level = "ERROR"
SavedLogged == \E i \in 1..Len(log) : log[i].msg = "HTML report saved to: index.html"
Did(step) == step \in Range(steps)
InFlight == {u \in Urls : req[u] = "inflight"}
Issued == {u \in Urls : reqCount[u] > 0}

\* what happens after a failure of one of the given kinds
StopsWithoutOutput(kinds) ==
    faults \cap kinds # {} =>
        /\ ~exportInvoked
        /\ writes = 0
        /\ file = file0
        /\ pc = "done" => ErrorLogged /\ ~SavedLogged

Expected(s) ==
    IF s = "rotterdam" THEN <<"fetch", "zwem", "prompt", "llm_call", "llm", "write">>
    ELSE <<"fetch", "prompt", "llm_call", "llm", "write">>

\* C2: the steps are finished in the order fetch, (zwemwater,) prompt, LLM, write;
\* create_prompt is entered only when every GET of the run has returned; the LLM
\* is called only with a built prompt; write_text only with a returned report; a
\* run that wrote the file has done every step.
C2_Order ==
    /\ IsPrefix(steps, Expected(script))
    /\ (pc \in {"create_prompt", "llm", "llm_wait", "export"} \/ "create_prompt" \in faults)
           => /\ \A u \in ScriptUrls(script) : req[u] = "ok"
              /\ InFlight = {}
    /\ llmCalls > 0 => Did("prompt") /\ prompt # Unset
    /\ (exportInvoked \/ writes > 0) => Did("llm") /\ report # Unset
    /\ Did("write") => steps = Expected(script)

\* C2 witness: a rotterdam run that went through every step
C2_Witness == pc = "done" /\ script = "rotterdam" /\ steps = Expected(script)

Replaced(text) == [i \in 1..Len(text) |-> IF text[i] = "\n" THEN "<br>" ELSE text[i]]

C6_BoundByPosition ==
    /\ water_data # Unset =>
          /\ water_data = result[WATER_DATA_URL].value
          /\ water_messages = result[WATER_MESSAGES_URL].value
    /\ zwemwater_safety_data # Unset =>
          \A i \in 1..Len(ZWEMWATER_IDS) :
             LET v == result[ZWEMWATER_IDS[i]].value IN
             zwemwater_safety_data.safetyMessages[i] =
                 IF SoupRaises(v) THEN ErrorRecord(v) ELSE ParsedRecord(v.s)
    /\ prompt # Unset =>
          prompt = create_prompt(script, result[WATER_DATA_URL].value,
                                 result[WATER_MESSAGES_URL].value,
                                 zwemwater_safety_data).value

\* C6 witness: both groups finished in another order than they were issued in,
\* with different results, and the results are bound
C6_Witness ==
    /\ pc = "create_prompt"
    /\ script = "rotterdam"
    /\ completed[1] = WATER_MESSAGES_URL
    /\ completed[3] = ZWEMWATER_IDS[4]
    /\ completed[6] = ZWEMWATER_IDS[1]
    /\ result[ZWEMWATER_IDS[1]] # result[ZWEMWATER_IDS[4]]

\* C7: rijnhaven sends exactly the two RWS requests and no zwemwater request;
\* rotterdam sends the four zwemwater requests, one per id, only after both RWS
\* requests have returned; at most four requests are in flight, and never
\* requests of both groups.
C7_Requests ==
    /\ Cardinality(InFlight) <= 4
    /\ ~(InFlight \cap Range(RwsGroup) # {} /\ InFlight \cap Range(ZwemGroup) # {})
    /\ pc # "start" => Range(RwsGroup) \subseteq Issued
    /\ script = "rijnhaven" => Issued \subseteq Range(RwsGroup)
    /\ Issued \cap Range(ZwemGroup) # {} =>
          /\ script = "rotterdam"
          /\ Issued = Urls
          /\ \A u \in Range(RwsGroup) : req[u] = "ok"
    /\ \A u \in Urls : reqCount[u] <= 1

\* C7 witness: rotterdam with its four zwemwater requests in flight
C7_Witness ==
    /\ script = "rotterdam"
    /\ InFlight = Range(ZwemGroup)
    /\ Cardinality(InFlight) = 4

\* C8: no URL is requested twice, the completion endpoint is called at most
\* once, write_text is called at most once, whatever the outcome of each step.
C8_AtMostOnce ==
    /\ \A u \in Urls : reqCount[u] <= 1
    /\ llmCalls <= 1
    /\ writes <= 1

\* C8 witness: a run that failed at the LLM after every request, and stopped
C8_Witness ==
    /\ pc = "done"
    /\ ErrorLogged
    /\ "llm" \in faults
    /\ llmCalls = 1
    /\ \A u \in Urls : reqCount[u] = 1

\* C9: rotterdam's safetyMessages has one record per id of ZWEMWATER_IDS, in that
\* order; the record of a page BeautifulSoup rejects is {'error', 'raw'} with the
\* page as raw; and a run in which nothing else failed logs no error.
C9_OneRecordPerId ==
    /\ zwemwater_safety_data # Unset =>
          /\ Len(zwemwater_safety_data.safetyMessages) = Len(ZWEMWATER_IDS)
          /\ \A i \in 1..Len(ZWEMWATER_IDS) :
                LET v == result[ZWEMWATER_IDS[i]].value
                    rec == zwemwater_safety_data.safetyMessages[i]
                IN IF SoupRaises(v)
                   THEN DOMAIN rec = {"error", "raw"} /\ rec.raw = v
                   ELSE Has(rec, "place") /\ rec.place = ParsedRecord(v.s).place
    /\ ErrorLogged => faults \ {"html_parse"} # {}
    /\ (pc = "zwem_gather" /\ GatherAll(ZwemGroup)) => ENABLED ZwemJoin

\* C9 witness: a run with a rejected page that saved its report
C9_Witness ==
    /\ pc = "done"
    /\ faults = {"html_parse"}
    /\ Did("write")
    /\ SavedLogged

\* C10 as stated: a finished run has either written index.html and logged
\* 'HTML report saved' with no error logged, or logged 'Something went wrong'
\* with the file not written; never both and never neither.
C10_ExactlyOneOutcome ==
    pc = "done" =>
        LET saved == Did("write") /\ SavedLogged /\ ~ErrorLogged /\ file # file0
            failed == ErrorLogged /\ ~SavedLogged /\ file = file0
        IN (saved /\ ~failed) \/ (failed /\ ~saved)


\* the entries of `related` whose label has the word
Matching(related, word) ==
    {i \in 1..Len(related) : Has(related[i], "label") /\ word \in Range(related[i].label)}

Least(S) == CHOOSE i \in S : \A j \in S : i <= j

\* the value the prompt must show for the measurement named by word
ShowsFirst(related, word, shown) ==
    Matching(related, word) # {} =>
        LET first == related[Least(Matching(related, word))] IN
        Has(first, "data") => shown = first.data

\* C4: a prompt that create_prompt returns shows latest.data as the water level,
\* the data of the first 'related' entry whose label has 'Windsnelheid' as the wind
\* speed, the data of the first whose label has 'Watertemperatuur' as the water
\* temperature, and the lines '- <title>: <bannerText>' of the messages, one per
\* message and in the order of the input.
C4_PromptShowsValues ==
    prompt # Unset =>
        LET wd == water_data.d
            related == Get(wd, "related", <<>>)
            msgs == Get(water_messages.d, "messages", <<>>)
            lines == [i \in 1..Len(msgs) |->
                         "- " \o msgs[i].title \o ": " \o msgs[i].bannerText]
        IN /\ (Has(wd, "latest") /\ Has(wd.latest, "data")) => prompt.level = wd.latest.data
           /\ ShowsFirst(related, "Windsnelheid", prompt.wind)
           /\ ShowsFirst(related, "Watertemperatuur", prompt.temp)
           /\ msgs # <<>> => prompt.messages = lines
           /\ Contains(prompt.messages, lines)

\* C4 witness: a prompt built from two wind entries with different data and two
\* different messages
C4_Witness ==
    /\ prompt # Unset
    /\ Has(water_data.d, "related")
    /\ Len(water_data.d.related) = 2
    /\ Matching(water_data.d.related, "Windsnelheid") = {1, 2}
    /\ Has(water_data.d.related[1], "data")
    /\ Has(water_data.d.related[2], "data")
    /\ water_data.d.related[1].data # water_data.d.related[2].data
    /\ Len(water_messages.d.messages) = 2
    /\ water_messages.d.messages[1] # water_messages.d.messages[2]

Placeholders == {"N/A", "None"}

\* C5 as stated: when both fetched values are dicts, whatever fields are absent
\* from them, create_prompt returns a prompt, and the prompt shows a placeholder
\* for an absent water level.
C5_AbsentFieldsGetPlaceholders ==
    (pc # "create_prompt" /\ water_data.kind = "dict" /\ water_messages.kind = "dict") =>
        /\ "create_prompt" \notin faults
        /\ prompt # Unset
        /\ ~(Has(water_data.d, "latest") /\ Has(water_data.d.latest, "data"))
               => prompt.level \in Placeholders

====
